---- MODULE Spec2Model ----
(***************************************************************************)
(* NABOKO app.js: the decode-to-playback pipeline (frame aggregation,      *)
(* dedup, debounce, voice cap, audio asset cache, panned playback) and the *)
(* capture-device lifecycle (startScanner, camera toggle, boot).           *)
(*                                                                         *)
(* Text is a sequence of one-character strings, so that trim() is a real   *)
(* computation.  Time is Date.now() in milliseconds.  Every await of the   *)
(* source is a point where an async function is suspended; the code between*)
(* two awaits is one atomic action (single-threaded event loop).           *)
(***************************************************************************)
EXTENDS Integers, Sequences, FiniteSets, TLC

\* ------------------------------------------------------------------ bounds
AdmitTicks == 2      \* clock advances explored (admission scenario)
AdmitBatches == 2    \* calls of handleDecodedArray explored (admission scenario)
AdmitFrame == 1      \* decode events collected in one frame (admission scenario)
AdmitTunes == 1      \* calls of nabokoTuning.setDebounce explored
LoadTicks == 2       \* clock advances explored (asset loading scenario)
LoadBatches == 2     \* calls of handleDecodedArray explored (asset loading)
LoadFrame == 2       \* decode events collected in one frame (asset loading)
IsoTicks == 1        \* clock advances explored (failure isolation scenario)
IsoBatches == 1      \* calls of handleDecodedArray explored (failure isolation)
IsoFrame == 2        \* decode events collected in one frame (failure isolation)
MaxCapIds == 12      \* figures of the voice cap scenario
CapFrame == 12       \* decode events collected in one frame (voice cap scenario)
CapBatches == 1      \* calls of handleDecodedArray explored (voice cap scenario)
CapTicks == 1        \* clock advances explored (voice cap scenario)
ScanCalls == 2       \* calls of startScanner explored (scanner scenario)
ScanClicks == 1      \* clicks on the start button explored (scanner scenario)
ScanTicks == 1       \* clock advances explored (scanner scenario)
ScanBatches == 1     \* calls of handleDecodedArray explored (scanner scenario)
ScanFrame == 1       \* decode events collected in one frame (scanner scenario)
ToggleCalls == 3     \* calls of startScanner explored (toggle scenario)
KeyTicks == 2        \* clock advances explored (object key scenario)
KeyBatches == 2      \* calls of handleDecodedArray explored (object key scenario)
KeyFrame == 2        \* decode events collected in one frame (object key scenario)
FrameTicks == 2      \* clock advances explored (aggregation scenario)
FrameBatches == 2    \* calls of handleDecodedArray explored (aggregation scenario)
FrameEvents == 2     \* decode events collected in one frame (aggregation scenario)
LateTicks == 2       \* clock advances explored (late batch scenario)
LateBatches == 2     \* calls of handleDecodedArray explored (late batch scenario)
LateEvents == 2      \* decode events collected in a later frame (late batch scenario)
RetryTicks == 2      \* clock advances explored (reload scenario)
RetryBatches == 2    \* calls of handleDecodedArray explored (reload scenario)
RetryFrame == 2      \* decode events collected in one frame (reload scenario)

\* ------------------------------------------------- configurable constants
DEBOUNCE_MS_DEFAULT == 250
MAX_SIMULTANEOUS_VOICES == 10
FRAME_WINDOW_MS == 50
STAGGER_MS == 12

VARIABLES
  clock,          \* Date.now()
  nticks,         \* number of clock advances so far (exploration bound)
  ntunes,         \* number of setDebounce calls so far (exploration bound)
  DEBOUNCE_MS,    \* let DEBOUNCE_MS
  figuresMap,     \* own properties of figuresMap: id -> FigureRecord
  audioBuffers,   \* own properties of audioBuffers: url -> decoded buffer
  lastPlayed,     \* own properties of lastPlayed: id -> timestamp
  hasPanner,      \* typeof AUDIO_CTX.createStereoPanner === 'function'
  frames,         \* per startScanner call: its closure's frameBuffer, frameTimer,
                  \* and the non-blank texts its onSuccess was called with
  handlers,       \* the calls of handleDecodedArray, in call order
  bootPc,         \* where boot() stands
  mapping,        \* how the fetch of data/figures.json answered
  startBtn,       \* the #start-button element, if any
  toggleBtn,      \* the #toggle-camera element, if any
  devices,        \* what navigator.mediaDevices.enumerateDevices() lists
  html5QrCodeInstance,  \* let html5QrCodeInstance: an index of engines, 0 = null
  usingFacing,    \* let usingFacing
  engines,        \* the Html5Qrcode objects constructed so far
  scans,          \* the calls of startScanner, in call order
  boots           \* the runs of the start flow (onStart clicks, auto start)

pipeVars == <<clock, nticks, ntunes, DEBOUNCE_MS, figuresMap, audioBuffers,
              lastPlayed, hasPanner, frames, handlers>>

scanVars == <<bootPc, mapping, startBtn, toggleBtn, devices, html5QrCodeInstance,
              usingFacing, engines, scans, boots>>

vars == <<pipeVars, scanVars>>

\* ------------------------------------------------------------------- text
WS == " "
Null == <<"<null>">>           \* the JS value null/undefined given as text
Undefined == "undefined"       \* String(undefined), and a missing property

Max(a, b) == IF a > b THEN a ELSE b
Min(a, b) == IF a < b THEN a ELSE b

OrEmpty(raw) == IF raw = Null THEN <<>> ELSE raw

RECURSIVE TrimStart(_)
TrimStart(s) ==
  IF s # <<>> /\ Head(s) = WS THEN TrimStart(Tail(s)) ELSE s

RECURSIVE TrimEnd(_)
TrimEnd(s) ==
  IF s # <<>> /\ s[Len(s)] = WS THEN TrimEnd(SubSeq(s, 1, Len(s) - 1)) ELSE s

Trim(raw) == TrimEnd(TrimStart(OrEmpty(raw)))


\* -------------------------------------------------------- JS object lookups
\* figuresMap and lastPlayed are plain objects ({}), so a lookup of a key that
\* is no own property falls through to Object.prototype.
ProtoKeys == {<<"constructor">>}
UndefinedText == <<"undefined">>
\* Object.prototype.constructor, read as a FigureRecord: no id, no sound
ProtoMember == [id |-> UndefinedText, sound |-> Undefined]

Put(f, k, v) == [x \in DOMAIN f \cup {k} |-> IF x = k THEN v ELSE f[x]]

\* figuresMap[id] is truthy
Mapped(id) == id \in DOMAIN figuresMap \/ id \in ProtoKeys

\* figuresMap[id]
MetaOf(id) == IF id \in DOMAIN figuresMap THEN figuresMap[id] ELSE ProtoMember

NoBuf == <<>>
\* audioBuffers[url] is truthy
HasBuf(bufs, url) == url \in DOMAIN bufs /\ bufs[url] # NoBuf
BufOf(bufs, url) == IF url \in DOMAIN bufs THEN bufs[url] ELSE NoBuf

\* ------------------------------------------------ handleDecodedArray, sync
\* seen.add(id) moved before the seen.has(id) test
RECURSIVE UniqueFromAddFirst(_, _, _)
UniqueFromAddFirst(arr, seen, acc) ==
  IF arr = <<>> THEN acc
  ELSE LET id == Trim(Head(arr)) IN
       IF id = <<>> \/ id \in (seen \cup {id})
       THEN UniqueFromAddFirst(Tail(arr), seen \cup {id}, acc)
       ELSE UniqueFromAddFirst(Tail(arr), seen \cup {id}, Append(acc, id))

\* lines 95-104: ordered unique list preserving first occurrence
RECURSIVE UniqueFrom(_, _, _)
UniqueFrom(arr, seen, acc) ==
  IF arr = <<>> THEN acc
  ELSE LET id == Trim(Head(arr)) IN
       IF id = <<>> \/ id \in seen
       THEN UniqueFrom(Tail(arr), seen, acc)
       ELSE UniqueFrom(Tail(arr), seen \cup {id}, Append(acc, id))

UniqueOrdered(decodedArray) == UniqueFrom(decodedArray, {}, <<>>)

DebouncedInclusive(id, now, lp, D) ==
  IF id \in DOMAIN lp THEN now - lp[id] <= D
  ELSE IF id \in ProtoKeys THEN FALSE
  ELSE now - 0 <= D

\* lines 111-112: (now - (lastPlayed[id] || 0)) < DEBOUNCE_MS.  An inherited
\* member of lastPlayed is a function, now - function is NaN, NaN < D is false.
Debounced(id, now, lp, D) ==
  IF id \in DOMAIN lp THEN now - lp[id] < D
  ELSE IF id \in ProtoKeys THEN FALSE
  ELSE now - 0 < D

\* the filter writing the timestamp only of the records that the voice cap
\* will keep
RECURSIVE FilterPlayableStampKept(_, _, _, _, _)
FilterPlayableStampKept(ids, now, lp, D, acc) ==
  IF ids = <<>> THEN [metas |-> acc.metas, keys |-> acc.keys, lp |-> lp]
  ELSE LET id == Head(ids) IN
       IF ~Mapped(id) \/ Debounced(id, now, lp, D)
       THEN FilterPlayableStampKept(Tail(ids), now, lp, D, acc)
       ELSE FilterPlayableStampKept(Tail(ids), now,
              IF Len(acc.metas) < MAX_SIMULTANEOUS_VOICES
              THEN Put(lp, id, now) ELSE lp,
              D,
              [metas |-> Append(acc.metas, MetaOf(id)),
               keys |-> Append(acc.keys, id)])

\* lines 107-115: the mapping and debounce filter, writing lastPlayed as it
\* goes; keys lists the ids whose records were pushed to playableMetas
RECURSIVE FilterPlayable(_, _, _, _, _)
FilterPlayable(ids, now, lp, D, acc) ==
  IF ids = <<>> THEN [metas |-> acc.metas, keys |-> acc.keys, lp |-> lp]
  ELSE LET id == Head(ids) IN
       IF ~Mapped(id) THEN FilterPlayable(Tail(ids), now, lp, D, acc)
       ELSE IF Debounced(id, now, lp, D)
            THEN FilterPlayable(Tail(ids), now, lp, D, acc)
            ELSE FilterPlayable(Tail(ids), now, Put(lp, id, now), D,
                                [metas |-> Append(acc.metas, MetaOf(id)),
                                 keys |-> Append(acc.keys, id)])

SliceOneMore(playableMetas) ==
  SubSeq(playableMetas, 1, Min(Len(playableMetas), MAX_SIMULTANEOUS_VOICES + 1))

\* line 119: playableMetas.slice(0, MAX_SIMULTANEOUS_VOICES)
SliceVoices(playableMetas) ==
  SubSeq(playableMetas, 1, Min(Len(playableMetas), MAX_SIMULTANEOUS_VOICES))

\* lines 37-40: loadAudio up to its first await
LoadAudioStart(bufs, url) == IF HasBuf(bufs, url) THEN "cached" ELSE "loading"

\* lines 123-126: the map callback up to its first await
TaskStart(bufs, m) ==
  IF ~HasBuf(bufs, m.sound) THEN LoadAudioStart(bufs, m.sound) ELSE "cached"

CatchesLoadErrorNot == FALSE

\* lines 125-130: the map callback catches what loadAudio throws
CatchesLoadError == TRUE

Settled == {"cached", "loaded", "failed"}

\* line 138, as the exact fraction num/den: (idx / max(1, n-1)) * 2 - 1
PanOf(idx, n) ==
  LET den == Max(1, n - 1) IN [num |-> 2 * idx - den, den |-> den]

\* the stagger counted from 1
WhenOfNext(idx) == [num |-> (idx + 1) * STAGGER_MS, den |-> 1000]

\* line 139, in seconds as the fraction num/den
WhenOf(idx) == [num |-> idx * STAGGER_MS, den |-> 1000]

\* lines 68-88: playBuffer; without createStereoPanner the pan is not applied
PlayBuffer(buf, pan, when, panner) ==
  [buf |-> buf, pan |-> pan, when |-> when, panned |-> panner]

\* lines 135-142: the voices started and the feedback shown by the forEach
RECURSIVE PlayFrom(_, _, _, _, _)
PlayFrom(toPlay, idx, bufs, panner, acc) ==
  IF idx >= Len(toPlay) THEN acc
  ELSE LET m == toPlay[idx + 1]
           buf == BufOf(bufs, m.sound)
       IN IF buf = NoBuf THEN PlayFrom(toPlay, idx + 1, bufs, panner, acc)
          ELSE PlayFrom(toPlay, idx + 1, bufs, panner,
                 [voices |-> Append(acc.voices,
                        [idx |-> idx, id |-> m.id, sound |-> m.sound,
                         out |-> PlayBuffer(buf, PanOf(idx, Len(toPlay)),
                                            WhenOf(idx), panner)]),
                  hits |-> Append(acc.hits, m.id)])

PlayAll(toPlay, bufs, panner) ==
  PlayFrom(toPlay, 0, bufs, panner, [voices |-> <<>>, hits |-> <<>>])

\* lines 123-142: the rest of handleDecodedArray once Promise.all has settled.
\* A promise that is already settled continues in the same turn of the event
\* loop, so the continuation is part of the step that settles the last task.
Continue(hr, bufs, panner) ==
  IF hr.pc # "await" THEN hr
  ELSE IF ~CatchesLoadError /\ \E i \in DOMAIN hr.tasks : hr.tasks[i] = "failed"
  THEN [hr EXCEPT !.pc = "done", !.threw = TRUE]
  ELSE IF \A i \in DOMAIN hr.tasks : hr.tasks[i] \in Settled
  THEN LET p == PlayAll(hr.toPlay, bufs, panner)
       IN [hr EXCEPT !.pc = "done", !.voices = p.voices, !.hits = p.hits]
  ELSE hr

\* lines 91-143: handleDecodedArray(batch) up to its first suspension; src
\* and session note the startScanner call that collected the batch and where
\* its capture session stands at the flush, closed the time its timer was due
HandleStart(c, session, closed, batch, now, lp, D, bufs, panner) ==
  LET uniqueOrdered == UniqueOrdered(batch)
      f == FilterPlayable(uniqueOrdered, now, lp, D,
                          [metas |-> <<>>, keys |-> <<>>])
      toPlay == SliceVoices(f.metas)
      hr == [src |-> c, session |-> session, closed |-> closed, batch |-> batch,
             now |-> now, D |-> D,
             unique |-> uniqueOrdered, admitted |-> f.keys,
             toPlay |-> IF f.metas = <<>> THEN <<>> ELSE toPlay,
             tasks |-> IF f.metas = <<>> THEN <<>>
                       ELSE [i \in 1..Len(toPlay) |-> TaskStart(bufs, toPlay[i])],
             pc |-> IF f.metas = <<>> THEN "returned" ELSE "await",
             threw |-> FALSE, voices |-> <<>>, hits |-> <<>>]
  IN [h |-> Continue(hr, bufs, panner), lp |-> f.lp]

\* ---------------------------------------------------------------- actions
\* time passes
Tick(d, maxTicks) ==
  /\ nticks < maxTicks
  /\ clock' = clock + d
  /\ nticks' = nticks + 1
  /\ UNCHANGED <<ntunes, DEBOUNCE_MS, figuresMap, audioBuffers, lastPlayed,
                 hasPanner, frames, handlers, scanVars>>

\* lines 327-328: window.nabokoTuning.setDebounce(ms)
SetDebounce(ms, maxTunes) ==
  /\ ntunes < maxTunes
  /\ ntunes' = ntunes + 1
  /\ DEBOUNCE_MS' = IF ms # 0 THEN ms ELSE DEBOUNCE_MS
  /\ UNCHANGED <<clock, nticks, figuresMap, audioBuffers, lastPlayed,
                 hasPanner, frames, handlers, scanVars>>

\* an engine that is running reports to the onSuccess of startScanner call c
SessionRunning(c) ==
  \E e \in DOMAIN engines : engines[e].owner = c /\ engines[e].state = "running"

\* where the capture session of startScanner call c stands: its engine is
\* running, is being stopped (stop() called, not yet resolved), or neither
SessionOf(c) ==
  IF SessionRunning(c) THEN "running"
  ELSE IF \E e \in DOMAIN engines :
            engines[e].owner = c /\ engines[e].state = "stopping"
       THEN "stopping"
       ELSE "stopped"

\* onSuccess returning before the push while a timer is pending
OnSuccessStepReturnFirst(c, decodedText) ==
  LET id == Trim(decodedText)
      fr == frames[c]
  IN IF id = <<>> \/ fr.frameTimer # 0 THEN fr
     ELSE [fr EXCEPT !.frameBuffer = Append(@, id),
                     !.frameTimer = clock + FRAME_WINDOW_MS]

\* lines 200-211: onSuccess of the closure of startScanner call c
OnSuccessStep(c, decodedText) ==
  LET id == Trim(decodedText)
      fr == frames[c]
  IN IF id = <<>> THEN fr
     ELSE [fr EXCEPT !.frameBuffer = Append(@, id),
                     !.frameTimer = IF @ # 0 THEN @ ELSE clock + FRAME_WINDOW_MS]

\* lines 205-210 and 91-132: the flush timer of call c fires.  Timers of one
\* delay run in the order they were set (setTimeout), so a timer that is due
\* later waits for the ones due before it.
FlushTimer(c, maxBatches) ==
  /\ frames[c].frameTimer # 0
  /\ clock >= frames[c].frameTimer
  /\ Len(handlers) < maxBatches
  /\ \A d \in DOMAIN frames :
       frames[d].frameTimer # 0 => frames[c].frameTimer <= frames[d].frameTimer
  /\ LET r == HandleStart(c, SessionOf(c), frames[c].frameTimer,
                          frames[c].frameBuffer, clock, lastPlayed,
                          DEBOUNCE_MS, audioBuffers, hasPanner)
     IN /\ handlers' = Append(handlers, r.h)
        /\ lastPlayed' = r.lp
  /\ frames' = [frames EXCEPT ![c].frameBuffer = <<>>, ![c].frameTimer = 0]
  /\ UNCHANGED <<clock, nticks, ntunes, DEBOUNCE_MS, figuresMap, audioBuffers,
                 hasPanner, scanVars>>

\* task i of handler h moves to state st, the cache becoming bufs
SetTask(h, i, st, bufs) ==
  /\ handlers' = [handlers EXCEPT
        ![h] = Continue([handlers[h] EXCEPT !.tasks[i] = st], bufs, hasPanner)]
  /\ audioBuffers' = bufs
  /\ UNCHANGED <<clock, nticks, ntunes, DEBOUNCE_MS, figuresMap, lastPlayed,
                 hasPanner, frames, scanVars>>

\* lines 47 and 53: audioBuffers[url] = decoded
Store(h, i) == Put(audioBuffers, handlers[h].toPlay[i].sound, <<h, i>>)

\* lines 40-64: what loadAudio(url) comes to, given how fetch, arrayBuffer and
\* the two decodeAudioData calls answer.  `path` names the answers in order:
\* the fetch (rejected, !resp.ok, or ok), then the body, then the promise
\* decode, then the callback decode of the catch block.
LoadAudioResult(path) ==
  CASE path = "fetchRejects" -> "throw"          \* await fetch(url) throws
    [] path = "notOk" -> "throw"                 \* line 41
    [] path = "bodyRejects" -> "throw"           \* line 42
    [] path = "decoded" -> "store"               \* lines 46-48
    [] path = "fallbackDecoded" -> "store"       \* lines 52-54
    [] path = "fallbackError" -> "throw"         \* lines 55-57
    [] path = "fallbackThrows" -> "throw"        \* lines 59-61
    [] OTHER -> "throw"

\* a load that fails leaving the promise it rejected with as the cache entry
Rejected == <<"rejected">>
AfterFailurePoisoned(bufs, url) == Put(bufs, url, Rejected)

\* lines 41, 56 and 60: loadAudio throws without writing audioBuffers
AfterFailure(bufs, url) == bufs

LoadPaths == {"fetchRejects", "notOk", "bodyRejects", "decoded",
              "fallbackDecoded", "fallbackError", "fallbackThrows"}

\* lines 40-64 and 126-130: the load of task i of handler h comes to an end.
\* Between its start and its end loadAudio reads and writes no shared state
\* (its awaits at lines 40, 42, 46 only pass local values on), so its awaits
\* are taken in one step; the step is the turn in which it stores or throws.
LoadDone(h, i, path) ==
  /\ handlers[h].tasks[i] = "loading"
  /\ IF LoadAudioResult(path) = "store"
     THEN SetTask(h, i, "loaded", Store(h, i))
     ELSE SetTask(h, i, "failed",
                  AfterFailure(audioBuffers, handlers[h].toPlay[i].sound))

\* a fetch or decode that never answers (no timeout in lines 40-63)
Hang(h, i) ==
  /\ handlers[h].tasks[i] = "loading"
  /\ SetTask(h, i, "hung", audioBuffers)

\* the engine of call c reports a decoded text (lines 200-211); explored
\* while the frame can still grow and can still be flushed
OnSuccess(c, decodedText, maxFrame, maxBatches) ==
  /\ SessionRunning(c)
  /\ Len(frames[c].frameBuffer) < maxFrame
  /\ Len(handlers) < maxBatches
  /\ frames' = [frames EXCEPT ![c] =
        [OnSuccessStep(c, decodedText) EXCEPT
           !.reported = IF Trim(decodedText) = <<>> THEN @
                        ELSE Append(@, Trim(decodedText))]]
  /\ UNCHANGED <<clock, nticks, ntunes, DEBOUNCE_MS, figuresMap, audioBuffers,
                 lastPlayed, hasPanner, handlers, scanVars>>

\* ------------------------------------------- camera selection (160-177)
NoId == "<null>"
Truthy(id) == id \notin {NoId, ""}

\* lines 166 and 169: /back|rear|environment|wide|ultrawide/i and
\* /front|user|selfie/i, on the camera labels of the scenarios
MatchesRear(label) == label \in {"Back Camera", "Ultra Wide Front Camera"}
MatchesFront(label) == label \in {"Front Camera", "Ultra Wide Front Camera"}

\* lines 162-172: the body of the try of pickCameraIdForFacing
PickFrom(devs, facing) ==
  LET videoInputs == SelectSeq(devs, LAMBDA d : d.kind = "videoinput")
      rear == SelectSeq(videoInputs, LAMBDA d : MatchesRear(d.label))
      front == SelectSeq(videoInputs, LAMBDA d : MatchesFront(d.label))
  IN IF videoInputs = <<>> THEN NoId
     ELSE IF facing = "environment" /\ rear # <<>> THEN rear[1].deviceId
     ELSE IF facing # "environment" /\ front # <<>> THEN front[1].deviceId
     ELSE IF facing = "environment"
          THEN videoInputs[Len(videoInputs)].deviceId
          ELSE videoInputs[1].deviceId

\* lines 160-177: enumerateDevices lists the devices, or throws
PickCameraIdForFacing(outcome, devs, facing) ==
  IF outcome = "listed" THEN PickFrom(devs, facing) ELSE NoId

\* a device id constraint whatever the id
ConstraintsForAnyId(id) == "deviceId"

\* lines 190-191
ConstraintsFor(id) == IF Truthy(id) THEN "deviceId" ELSE "facingMode"

\* ------------------------------------------------- startScanner (179-234)
\* The engine is the html5-qrcode library: start() of an engine that is idle
\* is pending until the camera answers; start() of an engine that is starting
\* or running, and stop() of an engine that is not running, throw at once.
Opposite(facing) == IF facing = "user" THEN "environment" ELSE "user"
ToggleText(facing) ==
  IF facing = "user" THEN "Switch to Rear Camera" ELSE "Switch to Front Camera"

NewEngine == [state |-> "idle", owner |-> 0, constraint |-> "none"]
EmptyFrame == [frameBuffer |-> <<>>, frameTimer |-> 0, reported |-> <<>>]

NewScan(caller, facing) ==
  [caller |-> caller, facingPref |-> facing, pc |-> "awaitPick", eng |-> 0,
   constraints |-> "unset", attempts |-> 0, outcome |-> "none",
   result |-> "pending", facingIn |-> usingFacing, facingOut |-> usingFacing,
   held |-> 0, tried |-> <<>>, enumerated |-> "pending", id |-> NoId]

\* lines 179-189: startScanner(facing) up to its first suspension
ScanEnter(caller, facing, maxCalls) ==
  /\ Len(scans) < maxCalls
  /\ frames' = Append(frames, EmptyFrame)
  /\ IF html5QrCodeInstance # 0 /\ engines[html5QrCodeInstance].state = "running"
     THEN /\ engines' = [engines EXCEPT ![html5QrCodeInstance].state = "stopping"]
          /\ scans' = Append(scans, [NewScan(caller, facing) EXCEPT
                                       !.pc = "awaitStop",
                                       !.eng = html5QrCodeInstance])
          /\ UNCHANGED html5QrCodeInstance
     ELSE /\ engines' = Append(engines, NewEngine)
          /\ html5QrCodeInstance' = Len(engines) + 1
          /\ scans' = Append(scans, NewScan(caller, facing))

MaybeEnter(go, caller, facing, maxCalls) ==
  IF go THEN ScanEnter(caller, facing, maxCalls)
  ELSE UNCHANGED <<html5QrCodeInstance, engines, scans, frames>>

\* startScanner returns: what its caller sees, and what it leaves behind
Returned(sc, outcome, facing, inst) ==
  [sc EXCEPT !.pc = "done", !.outcome = outcome, !.result = "resolved",
             !.facingOut = facing, !.held = inst]

\* the button enabled again only after a start that succeeded
CallerDoneStarted(tb, sc) ==
  IF sc.pc = "done" /\ sc.caller = "toggle" /\ sc.outcome = "started"
  THEN [tb EXCEPT !.disabled = FALSE]
  ELSE tb

\* line 242: finally { toggleBtn.disabled = false }
CallerDone(tb, sc) ==
  IF sc.pc = "done" /\ sc.caller = "toggle" THEN [tb EXCEPT !.disabled = FALSE]
  ELSE tb

\* lines 218 and 226: html5QrCodeInstance.start(...) by call c on the engine
\* the variable holds now; tried lists the constraints of the starts made
TryStart(c, sc, engs, kind, stage) ==
  LET g == html5QrCodeInstance
      made == [sc EXCEPT !.attempts = @ + 1,
                         !.tried = Append(@, [kind |-> kind,
                                              facing |-> sc.facingPref])]
  IN IF engs[g].state = "idle"
     THEN [engines |-> [engs EXCEPT ![g] = [state |-> "starting", owner |-> c,
                                             constraint |-> kind]],
           scan |-> [made EXCEPT !.pc = stage, !.eng = g],
           pending |-> TRUE]
     ELSE [engines |-> engs, scan |-> made, pending |-> FALSE]

\* the catch block retrying whatever the first start was made with
AfterFirstFailureAlways(c, sc, engs) ==
  LET r == TryStart(c, sc, engs, "facingMode", "awaitFallback")
  IN IF r.pending THEN r
     ELSE [r EXCEPT !.scan = Returned(r.scan, "failed", usingFacing,
                                      html5QrCodeInstance)]

\* lines 222-233: the catch block after the first start has failed
AfterFirstFailure(c, sc, engs) ==
  IF sc.constraints = "deviceId"
  THEN LET r == TryStart(c, sc, engs, "facingMode", "awaitFallback")
       IN IF r.pending THEN r
          ELSE [r EXCEPT !.scan = Returned(r.scan, "failed", usingFacing,
                                           html5QrCodeInstance)]
  ELSE [engines |-> engs,
        scan |-> Returned(sc, "failed", usingFacing, html5QrCodeInstance),
        pending |-> FALSE]

\* lines 181-189: stop() of call c resolves
StopSettles(c) ==
  /\ scans[c].pc = "awaitStop"
  /\ engines' = Append([engines EXCEPT ![scans[c].eng].state = "idle"], NewEngine)
  /\ html5QrCodeInstance' = Len(engines) + 1
  /\ scans' = [scans EXCEPT ![c].pc = "awaitPick", ![c].eng = 0]
  /\ UNCHANGED <<pipeVars, bootPc, mapping, startBtn, toggleBtn, devices, usingFacing,
                 boots>>

\* lines 189-218: enumerateDevices of call c settles, the first start is made
PickSettles(c, outcome) ==
  /\ scans[c].pc = "awaitPick"
  /\ LET id == PickCameraIdForFacing(outcome, devices, scans[c].facingPref)
         sc == [scans[c] EXCEPT !.constraints = ConstraintsFor(id),
                                !.enumerated = outcome, !.id = id]
         r1 == TryStart(c, sc, engines, sc.constraints, "awaitStart")
         r == IF r1.pending THEN r1 ELSE AfterFirstFailure(c, r1.scan, r1.engines)
     IN /\ engines' = r.engines
        /\ scans' = [scans EXCEPT ![c] = r.scan]
        /\ toggleBtn' = CallerDone(
              IF toggleBtn.present THEN [toggleBtn EXCEPT !.shown = TRUE]
              ELSE toggleBtn, r.scan)
  /\ UNCHANGED <<pipeVars, bootPc, mapping, startBtn, devices, html5QrCodeInstance,
                 usingFacing, boots>>

\* lines 218-233: the start() that call c awaits settles
StartSettles(c, ok) ==
  /\ scans[c].pc \in {"awaitStart", "awaitFallback"}
  /\ LET e == scans[c].eng IN
     IF ok
     THEN /\ engines' = [engines EXCEPT ![e].state = "running"]
          /\ usingFacing' = scans[c].facingPref
          /\ scans' = [scans EXCEPT ![c] =
                Returned(scans[c], "started", scans[c].facingPref,
                         html5QrCodeInstance)]
          /\ toggleBtn' = CallerDone(
                IF toggleBtn.present
                THEN [toggleBtn EXCEPT !.text = ToggleText(scans[c].facingPref)]
                ELSE toggleBtn, scans'[c])
     ELSE LET engs == [engines EXCEPT ![e].state = "idle"]
              r == IF scans[c].pc = "awaitStart"
                   THEN AfterFirstFailure(c, scans[c], engs)
                   ELSE [engines |-> engs,
                         scan |-> Returned(scans[c], "failed", usingFacing,
                                           html5QrCodeInstance),
                         pending |-> FALSE]
          IN /\ engines' = r.engines
             /\ scans' = [scans EXCEPT ![c] = r.scan]
             /\ toggleBtn' = CallerDone(toggleBtn, r.scan)
             /\ UNCHANGED usingFacing
  /\ UNCHANGED <<pipeVars, bootPc, mapping, startBtn, devices, html5QrCodeInstance, boots>>

\* lines 239-243: a click on the toggle button
ToggleClick(maxCalls) ==
  /\ toggleBtn.present /\ toggleBtn.shown /\ ~toggleBtn.disabled
  /\ toggleBtn' = [toggleBtn EXCEPT !.disabled = TRUE]
  /\ ScanEnter("toggle", Opposite(usingFacing), maxCalls)
  /\ UNCHANGED <<clock, nticks, ntunes, DEBOUNCE_MS, figuresMap, audioBuffers,
                 lastPlayed, hasPanner, handlers, bootPc, mapping, startBtn,
                 devices,
                 usingFacing, boots>>

\* ------------------------------------------------------- boot (268-317)
\* the elements of S in some order (the loads of a preload run concurrently)
RECURSIVE SetToSeq(_)
SetToSeq(S) ==
  IF S = {} THEN <<>>
  ELSE LET x == CHOOSE y \in S : TRUE IN <<x>> \o SetToSeq(S \ {x})

\* lines 293 and 310: the distinct sounds of the mapping
UrlsOf(figures) == SetToSeq({figures[id].sound : id \in DOMAIN figures})

\* lines 295 and 311: the preload calls loadAudio(u) for every url
PreloadStart(kind, figures, bufs) ==
  LET urls == UrlsOf(figures)
  IN [kind |-> kind, urls |-> urls,
      tasks |-> [i \in 1..Len(urls) |-> LoadAudioStart(bufs, urls[i])],
      pc |-> "preload"]

PreloadOver(b) == \A i \in DOMAIN b.tasks : b.tasks[i] \in Settled

\* lines 301-302 and 315: a preload that is over goes on to startScanner
AfterPreload(b) == IF PreloadOver(b) THEN [b EXCEPT !.pc = "done"] ELSE b

\* lines 28-34 and 268-316: loadMapping settles and boot goes on.  The
\* AUDIO_CTX.resume() of lines 307-309 touches no state of the program.
LoadMappingDone(outcome, figures, maxCalls) ==
  /\ bootPc = "loadMapping"
  /\ mapping' = outcome
  /\ IF outcome \in {"rejects", "notOk", "badJson"}
     THEN /\ bootPc' = "failed"
          /\ UNCHANGED <<figuresMap, boots, html5QrCodeInstance, engines, scans,
                         frames>>
     ELSE /\ bootPc' = "booted"
          /\ figuresMap' = IF outcome = "noList" THEN <<>> ELSE figures
          /\ IF startBtn.present
             THEN UNCHANGED <<boots, html5QrCodeInstance, engines, scans, frames>>
             ELSE LET b == PreloadStart("auto", figuresMap', audioBuffers)
                  IN /\ boots' = Append(boots, AfterPreload(b))
                     /\ MaybeEnter(PreloadOver(b), "auto", "user", maxCalls)
  /\ UNCHANGED <<clock, nticks, ntunes, DEBOUNCE_MS, audioBuffers, lastPlayed,
                 hasPanner, handlers, startBtn, toggleBtn, devices, usingFacing>>

\* lines 279-303: a click on the start button.  The AUDIO_CTX.resume() of
\* lines 280-289 touches no state of the program.
StartClick(maxClicks, maxCalls) ==
  /\ bootPc = "booted"
  /\ startBtn.present /\ startBtn.shown
  /\ Len(boots) < maxClicks
  /\ LET b == PreloadStart("click", figuresMap, audioBuffers)
     IN /\ boots' = Append(boots, AfterPreload(b))
        /\ startBtn' = IF PreloadOver(b) THEN [startBtn EXCEPT !.shown = FALSE]
                       ELSE startBtn
        /\ MaybeEnter(PreloadOver(b), "start", "user", maxCalls)
  /\ UNCHANGED <<clock, nticks, ntunes, DEBOUNCE_MS, figuresMap, audioBuffers,
                 lastPlayed, hasPanner, handlers, bootPc, mapping, toggleBtn,
                 devices,
                 usingFacing>>

\* task i of preload b moves to state st, the cache becoming bufs
SetPreload(b, i, st, bufs, maxCalls) ==
  LET nb == [boots[b] EXCEPT !.tasks[i] = st]
  IN /\ boots' = [boots EXCEPT ![b] = AfterPreload(nb)]
     /\ audioBuffers' = bufs
     /\ startBtn' = IF PreloadOver(nb) /\ nb.kind = "click"
                    THEN [startBtn EXCEPT !.shown = FALSE] ELSE startBtn
     /\ MaybeEnter(PreloadOver(nb), IF nb.kind = "click" THEN "start" ELSE "auto",
                   "user", maxCalls)
     /\ UNCHANGED <<clock, nticks, ntunes, DEBOUNCE_MS, figuresMap, lastPlayed,
                    hasPanner, handlers, bootPc, mapping, toggleBtn, devices,
                    usingFacing>>

\* lines 40-64, 295, 311: the load of url i of preload b comes to an end
PreloadDone(b, i, path, maxCalls) ==
  /\ boots[b].tasks[i] = "loading"
  /\ IF LoadAudioResult(path) = "store"
     THEN SetPreload(b, i, "loaded", Put(audioBuffers, boots[b].urls[i], <<0 - b, i>>),
                     maxCalls)
     ELSE SetPreload(b, i, "failed",
                     AfterFailure(audioBuffers, boots[b].urls[i]), maxCalls)

\* ------------------------------------------------ the pipeline, one session
T0 == 1000000                       \* a value of Date.now()

Figure(id, sound) == [id |-> id, sound |-> sound]

\* data/figures.json of the scenarios: two figures share one sound
PlayFigures ==
  LET a == <<"a">>  b == <<"b">>  c == <<"c">>
  IN [id \in {a, b, c} |-> Figure(id, IF id = c THEN "s2" ELSE "s1")]

Preloaded == <<0, 0>>               \* a buffer decoded by the preload at boot

\* The state once boot, preload and startScanner('user') have completed, the
\* preload having decoded the sounds in `ok`.
InitPipeline(figures, ok) ==
  /\ clock = T0
  /\ nticks = 0
  /\ ntunes = 0
  /\ DEBOUNCE_MS = DEBOUNCE_MS_DEFAULT
  /\ figuresMap = figures
  /\ audioBuffers = [u \in ok |-> Preloaded]
  /\ lastPlayed = <<>>
  /\ frames = <<[frameBuffer |-> <<>>, frameTimer |-> 0, reported |-> <<>>]>>
  /\ handlers = <<>>
  /\ bootPc = "booted"
  /\ mapping = "figures"
  /\ startBtn = [present |-> FALSE, shown |-> FALSE]
  /\ toggleBtn = [present |-> FALSE, shown |-> FALSE, disabled |-> FALSE,
                  text |-> "initial"]
  /\ devices = <<>>
  /\ html5QrCodeInstance = 1
  /\ usingFacing = "user"
  /\ engines = <<[state |-> "running", owner |-> 1, constraint |-> "facingMode"]>>
  /\ scans = <<[caller |-> "auto", facingPref |-> "user", pc |-> "done",
                eng |-> 1, constraints |-> "facingMode", attempts |-> 1,
                outcome |-> "started", result |-> "resolved",
                facingIn |-> "user", facingOut |-> "user", held |-> 1,
                tried |-> <<[kind |-> "facingMode", facing |-> "user"]>>,
                enumerated |-> "listed", id |-> NoId]>>
  /\ boots = <<[kind |-> "auto", urls |-> UrlsOf(figures),
                 tasks |-> [i \in 1..Len(UrlsOf(figures)) |->
                              IF UrlsOf(figures)[i] \in ok THEN "loaded"
                              ELSE "failed"],
                 pc |-> "done"]>>

\* --- admission scenario: every sound was preloaded, time and tuning vary
AdmitSteps == {50, 249, 250}
AdmitTunings == {0, 1, 251}
AdmitTexts == {Null, <<WS>>, <<"a">>, <<WS, "a", WS>>, <<"x">>}

InitAdmit ==
  /\ InitPipeline(PlayFigures, {"s1", "s2"})
  /\ hasPanner \in BOOLEAN

NextAdmit ==
  \/ \E d \in AdmitSteps : Tick(d, AdmitTicks)
  \/ \E ms \in AdmitTunings : SetDebounce(ms, AdmitTunes)
  \/ \E raw \in AdmitTexts : OnSuccess(1, raw, AdmitFrame, AdmitBatches)
  \/ FlushTimer(1, AdmitBatches)

SpecAdmit == InitAdmit /\ [][NextAdmit]_vars


\* --- asset loading scenario: the preload decoded any subset of the sounds
LoadSteps == {50}
LoadTexts == {<<"a">>, <<WS, "a", WS>>, <<"b">>, <<"c">>}

InitLoad ==
  /\ \E ok \in SUBSET {"s1", "s2"} : InitPipeline(PlayFigures, ok)
  /\ hasPanner = TRUE

TaskStep ==
  \E h \in DOMAIN handlers : \E i \in DOMAIN handlers[h].tasks :
     \/ \E path \in LoadPaths : LoadDone(h, i, path)
     \/ Hang(h, i)

NextLoad ==
  \/ \E d \in LoadSteps : Tick(d, LoadTicks)
  \/ \E raw \in LoadTexts : OnSuccess(1, raw, LoadFrame, LoadBatches)
  \/ FlushTimer(1, LoadBatches)
  \/ TaskStep

SpecLoad == InitLoad /\ [][NextLoad]_vars

\* --- failure isolation scenario: two figures with a sound each
IsoTexts == {<<"a">>, <<WS, "a", WS>>, <<"c">>}

NextIsolate ==
  \/ \E d \in LoadSteps : Tick(d, IsoTicks)
  \/ \E raw \in IsoTexts : OnSuccess(1, raw, IsoFrame, IsoBatches)
  \/ FlushTimer(1, IsoBatches)
  \/ TaskStep

SpecIsolate == InitLoad /\ [][NextIsolate]_vars

\* --- voice cap scenario: a row of MaxCapIds markers passes the camera in
\* either direction, starting at one of three markers; every sound was
\* preloaded
CapId(k) == <<"q", ToString(k)>>
CapIds == {CapId(k) : k \in 1..MaxCapIds}
CapIndex(id) == CHOOSE k \in 1..MaxCapIds : CapId(k) = id
CapWrap(k) == ((k - 1 + MaxCapIds) % MaxCapIds) + 1

CapFigures == [id \in CapIds |-> Figure(id, id[2])]

\* the texts the decoder may report next, given the frame collected so far
CapFeed(fb) ==
  IF fb = <<>> THEN {CapId(1), CapId(2), CapId(MaxCapIds)}
  ELSE LET last == CapIndex(fb[Len(fb)]) IN
       IF Len(fb) = 1 THEN {CapId(CapWrap(last + 1)), CapId(CapWrap(last - 1))}
       ELSE {CapId(CapWrap(last + (last - CapIndex(fb[Len(fb) - 1]))))}

InitCap ==
  /\ InitPipeline(CapFigures, {id[2] : id \in CapIds})
  /\ hasPanner = TRUE

NextCap ==
  \/ \E d \in LoadSteps : Tick(d, CapTicks)
  \/ \E raw \in CapFeed(frames[1].frameBuffer) : OnSuccess(1, raw, CapFrame, CapBatches)
  \/ FlushTimer(1, CapBatches)

SpecCap == InitCap /\ [][NextCap]_vars

\* --- scanner scenario: the page boots, the camera is started and toggled
Device(kind, label, deviceId) ==
  [kind |-> kind, label |-> label, deviceId |-> deviceId]

\* what enumerateDevices lists: nothing, a microphone and two labelled
\* cameras, two cameras without labels, or one camera without label and id
ScanDevices ==
  {<<>>,
   <<Device("audioinput", "Microphone", "mic"),
     Device("videoinput", "Front Camera", "cam1"),
     Device("videoinput", "Back Camera", "cam2")>>,
   <<Device("videoinput", "", "cam3"),
     Device("videoinput", "", "cam4"),
     Device("audioinput", "", "mic")>>,
   <<Device("videoinput", "", "")>>}

ScanFigures == [id \in {<<"a">>} |-> Figure(id, "s1")]
ScanTexts == {<<"a">>}
MappingOutcomes == {"rejects", "notOk", "badJson", "noList", "figures"}
EnumerateOutcomes == {"listed", "throws"}
PreloadPaths == {"decoded", "notOk"}

\* the page as loaded: boot() has called loadMapping() and awaits it
InitScan ==
  /\ clock = T0
  /\ nticks = 0
  /\ ntunes = 0
  /\ DEBOUNCE_MS = DEBOUNCE_MS_DEFAULT
  /\ figuresMap = <<>>
  /\ audioBuffers = <<>>
  /\ lastPlayed = <<>>
  /\ hasPanner = TRUE
  /\ frames = <<>>
  /\ handlers = <<>>
  /\ bootPc = "loadMapping"
  /\ mapping = "pending"
  /\ \E p \in BOOLEAN : startBtn = [present |-> p, shown |-> p]
  /\ toggleBtn = [present |-> TRUE, shown |-> FALSE, disabled |-> FALSE,
                  text |-> "initial"]
  /\ devices \in ScanDevices
  /\ html5QrCodeInstance = 0
  /\ usingFacing = "user"
  /\ engines = <<>>
  /\ scans = <<>>
  /\ boots = <<>>

NextScan ==
  \/ \E o \in MappingOutcomes : LoadMappingDone(o, ScanFigures, ScanCalls)
  \/ StartClick(ScanClicks, ScanCalls)
  \/ \E b \in DOMAIN boots : \E i \in DOMAIN boots[b].tasks :
       \E path \in PreloadPaths : PreloadDone(b, i, path, ScanCalls)
  \/ ToggleClick(ScanCalls)
  \/ \E c \in DOMAIN scans : StopSettles(c)
  \/ \E c \in DOMAIN scans : \E o \in EnumerateOutcomes : PickSettles(c, o)
  \/ \E c \in DOMAIN scans : \E ok \in BOOLEAN : StartSettles(c, ok)
  \/ \E c \in DOMAIN frames : \E t \in ScanTexts :
       OnSuccess(c, t, ScanFrame, ScanBatches)
  \/ \E c \in DOMAIN frames : FlushTimer(c, ScanBatches)
  \/ Tick(FRAME_WINDOW_MS, ScanTicks)
  \/ TaskStep

SpecScan == InitScan /\ [][NextScan]_vars

\* --- toggle scenario: a page without start button boots and the camera
\* is toggled again and again
InitToggle == InitScan /\ ~startBtn.present

NextToggle ==
  \/ LoadMappingDone("figures", ScanFigures, ToggleCalls)
  \/ \E b \in DOMAIN boots : \E i \in DOMAIN boots[b].tasks :
       \E path \in PreloadPaths : PreloadDone(b, i, path, ToggleCalls)
  \/ ToggleClick(ToggleCalls)
  \/ \E c \in DOMAIN scans : StopSettles(c)
  \/ \E c \in DOMAIN scans : \E o \in EnumerateOutcomes : PickSettles(c, o)
  \/ \E c \in DOMAIN scans : \E ok \in BOOLEAN : StartSettles(c, ok)

SpecToggle == InitToggle /\ [][NextToggle]_vars

\* --- object key scenario: codes whose text names a member that every
\* JavaScript object inherits
KeySteps == {50, 250}
KeyTexts == {<<"a">>, <<"constructor">>, <<"x">>}

NextKeys ==
  \/ \E d \in KeySteps : Tick(d, KeyTicks)
  \/ \E raw \in KeyTexts : OnSuccess(1, raw, KeyFrame, KeyBatches)
  \/ FlushTimer(1, KeyBatches)
  \/ TaskStep

SpecKeys == InitLoad /\ [][NextKeys]_vars

\* --- aggregation scenario: one running session, blank and non-blank
\* texts, every sound preloaded
FrameTexts == {Null, <<WS>>, <<"a">>, <<WS, "a", WS>>, <<"c">>}

InitFrames ==
  /\ InitPipeline(PlayFigures, {"s1", "s2"})
  /\ hasPanner = TRUE

NextFrames ==
  \/ Tick(FRAME_WINDOW_MS, FrameTicks)
  \/ \E raw \in FrameTexts : OnSuccess(1, raw, FrameEvents, FrameBatches)
  \/ FlushTimer(1, FrameBatches)

SpecFrames == InitFrames /\ [][NextFrames]_vars

\* --- reload scenario: two figures side by side share a sound that was not
\* preloaded; the camera decodes them alternately
RetrySteps == {50, 250}
RetryFeed(fb) == IF Len(fb) % 2 = 0 THEN <<"a">> ELSE <<"b">>

InitRetry ==
  /\ InitPipeline(PlayFigures, {})
  /\ hasPanner = TRUE

NextRetry ==
  \/ \E d \in RetrySteps : Tick(d, RetryTicks)
  \/ OnSuccess(1, RetryFeed(frames[1].frameBuffer), RetryFrame, RetryBatches)
  \/ FlushTimer(1, RetryBatches)
  \/ TaskStep

SpecRetry == InitRetry /\ [][NextRetry]_vars

\* --- late batch scenario: the row of MaxCapIds markers passes the camera
\* from the first marker on within one aggregation window, the sound of the
\* first marker not preloaded; later frames show the first and the last
\* marker again
LateSteps == {50, 250}

LateFeed(fb) ==
  IF handlers # <<>> THEN {CapId(1), CapId(MaxCapIds)}
  ELSE IF fb = <<>> THEN {CapId(1)}
  ELSE {CapId(CapWrap(CapIndex(fb[Len(fb)]) + 1))}

LateFrame == IF handlers = <<>> THEN MaxCapIds ELSE LateEvents

InitLate ==
  /\ InitPipeline(CapFigures, {id[2] : id \in CapIds \ {CapId(1)}})
  /\ hasPanner = TRUE

\* time passes, but not while the row is passing
LateTick(d) ==
  /\ handlers = <<>> => Len(frames[1].frameBuffer) \in {0, MaxCapIds}
  /\ Tick(d, LateTicks)

NextLate ==
  \/ \E d \in LateSteps : LateTick(d)
  \/ \E raw \in LateFeed(frames[1].frameBuffer) :
       OnSuccess(1, raw, LateFrame, LateBatches)
  \/ FlushTimer(1, LateBatches)
  \/ TaskStep

SpecLate == InitLate /\ [][NextLate]_vars

\* ------------------------------------------------------------------ claims
Range(seq) == {seq[k] : k \in DOMAIN seq}

\* the voices that handler h started for index i (0-based) of its toPlay
VoicesAt(h, i) == {k \in DOMAIN handlers[h].voices : handlers[h].voices[k].idx = i}

\* the loads in flight for url: each one is a fetch() of its own (line 40)
Loading(url) ==
  {t \in (DOMAIN handlers) \X (1..MAX_SIMULTANEOUS_VOICES) :
     /\ t[2] \in DOMAIN handlers[t[1]].tasks
     /\ handlers[t[1]].tasks[t[2]] = "loading"
     /\ handlers[t[1]].toPlay[t[2]].sound = url}

\* C1 (asset sharing): requests for one uncached asset reference that are in
\* flight at the same time share one fetch+decode.
C1_AssetSharing ==
  \A url \in {"s1", "s2"} : Cardinality(Loading(url)) <= 1

\* C4 (pan symmetry): with N admitted voices the voice at index i has pan
\* i/(N-1)*2-1, and the single voice of N = 1 has pan 0.
C4_PanSymmetry ==
  \A h \in DOMAIN handlers : \A k \in DOMAIN handlers[h].voices :
    LET v == handlers[h].voices[k]
        N == Len(handlers[h].toPlay)
    IN v.out.panned =>
         IF N = 1 THEN v.out.pan.num = 0
         ELSE v.out.pan.num * (N - 1) = (2 * v.idx - (N - 1)) * v.out.pan.den

\* C5 (hang isolation): when one load of a batch never completes, the records
\* of the batch whose assets are loaded are played all the same.  Stated at
\* the point where nothing of the handler is left to run.
C5_HangIsolation ==
  \A h \in DOMAIN handlers :
    ( /\ \E j \in DOMAIN handlers[h].tasks : handlers[h].tasks[j] = "hung"
      /\ \A j \in DOMAIN handlers[h].tasks : handlers[h].tasks[j] # "loading" )
    => \A i \in DOMAIN handlers[h].tasks :
         handlers[h].tasks[i] \in {"loaded", "cached"} => VoicesAt(h, i - 1) # {}

\* C6 (partial failure isolation): when the load of one admitted record has
\* failed and the loads of the others have completed, handleDecodedArray has
\* completed without an exception, every record whose asset loaded was played
\* once and got one feedback, and a record whose asset is missing was skipped.
C6_FailureIsolation ==
  \A h \in DOMAIN handlers :
    ( /\ \E j \in DOMAIN handlers[h].tasks : handlers[h].tasks[j] = "failed"
      /\ \A j \in DOMAIN handlers[h].tasks : handlers[h].tasks[j] \in Settled )
    => /\ handlers[h].pc = "done"
       /\ ~handlers[h].threw
       /\ \A i \in DOMAIN handlers[h].tasks :
            LET m == handlers[h].toPlay[i] IN
            /\ handlers[h].tasks[i] \in {"loaded", "cached"}
                 => /\ Cardinality(VoicesAt(h, i - 1)) = 1
                    /\ Cardinality({k \in DOMAIN handlers[h].hits :
                                      handlers[h].hits[k] = m.id}) = 1
            /\ ~HasBuf(audioBuffers, m.sound) => VoicesAt(h, i - 1) = {}

\* a batch with a failed load and a sibling that was played
C6_Witness ==
  \E h \in DOMAIN handlers :
    /\ handlers[h].pc = "done"
    /\ \E j \in DOMAIN handlers[h].tasks :
         /\ handlers[h].tasks[j] = "failed"
         /\ ~HasBuf(audioBuffers, handlers[h].toPlay[j].sound)
    /\ \E i \in DOMAIN handlers[h].tasks :
         handlers[h].tasks[i] = "loaded" /\ VoicesAt(h, i - 1) # {}

\* id was admitted by no earlier batch less than D before handler h
Fresh(h, id) ==
  \A h1 \in DOMAIN handlers :
    (h1 < h /\ id \in Range(handlers[h1].admitted))
      => handlers[h].now - handlers[h1].now >= handlers[h].D

\* id is accepted from the batch of handler h: mapped, not debounced, and
\* its asset did not fail to load
Accepted(h, id) ==
  /\ id \in Range(handlers[h].batch)
  /\ id \in DOMAIN figuresMap
  /\ Fresh(h, id)
  /\ \A i \in DOMAIN handlers[h].tasks :
       handlers[h].toPlay[i].id = id
         => handlers[h].tasks[i] \in {"loaded", "cached"}

Ended(h) ==
  /\ handlers[h].pc \in {"done", "returned"}
  /\ \A i \in DOMAIN handlers[h].tasks : handlers[h].tasks[i] \in Settled

Occurrences(seq, x) == Cardinality({k \in DOMAIN seq : seq[k] = x})

\* C8 (dedup): an accepted id that occurs k >= 1 times in a batch gets exactly
\* one playback and one feedback from that batch.
C8_Dedup ==
  \A h \in DOMAIN handlers :
    Ended(h) =>
      \A id \in Range(handlers[h].batch) :
        (Accepted(h, id) /\ Cardinality(Range(handlers[h].batch))
                              <= MAX_SIMULTANEOUS_VOICES)
          => /\ Cardinality({k \in DOMAIN handlers[h].voices :
                               handlers[h].voices[k].id = id}) = 1
             /\ Occurrences(handlers[h].hits, id) = 1

\* a batch holding an accepted id twice that has been played
C8_Witness ==
  \E h \in DOMAIN handlers : \E id \in Range(handlers[h].batch) :
    /\ Ended(h)
    /\ Accepted(h, id)
    /\ Occurrences(handlers[h].batch, id) >= 2
    /\ Occurrences(handlers[h].hits, id) = 1

\* C3 (debounce): an id admitted by a batch flushed at time t is admitted by no
\* later batch flushed before t + D, and a later batch flushed at or after
\* t + D that contains the id (mapped, not admitted in between) admits it
\* again; D is the debounce interval in force when the later batch is flushed.
C3_Debounce ==
  \A h1 \in DOMAIN handlers : \A h2 \in DOMAIN handlers :
    \A id \in Range(handlers[h1].admitted) :
      h1 < h2 =>
        /\ id \in Range(handlers[h2].admitted)
             => handlers[h2].now - handlers[h1].now >= handlers[h2].D
        /\ ( /\ id \in Range(handlers[h2].unique)
             /\ Mapped(id)
             /\ \A k \in DOMAIN handlers :
                  h1 < k /\ k < h2 => id \notin Range(handlers[k].admitted)
             /\ handlers[h2].now >= handlers[h1].now + handlers[h2].D )
             => id \in Range(handlers[h2].admitted)

\* an id is admitted again by a batch flushed exactly D after its admission
C3_Witness ==
  \E h1 \in DOMAIN handlers : \E h2 \in DOMAIN handlers :
    /\ h1 < h2
    /\ handlers[h2].now = handlers[h1].now + handlers[h2].D
    /\ \E id \in Range(handlers[h1].admitted) :
         id \in Range(handlers[h2].admitted)

\* an id is dropped by a batch flushed D - 1 after its admission
C3_WitnessDropped ==
  \E h1 \in DOMAIN handlers : \E h2 \in DOMAIN handlers :
    /\ h1 < h2
    /\ handlers[h2].now = handlers[h1].now + handlers[h2].D - 1
    /\ \E id \in Range(handlers[h1].admitted) :
         id \in Range(handlers[h2].unique) \ Range(handlers[h2].admitted)


\* the ids of the batch of handler h that are mapped and not debounced
Admissible(h) ==
  {id \in Range(handlers[h].batch) : id \in DOMAIN figuresMap /\ Fresh(h, id)}

FirstPos(seq, x) == CHOOSE p \in DOMAIN seq :
                      seq[p] = x /\ \A q \in DOMAIN seq : seq[q] = x => p <= q

\* the number of admissible ids decoded before id in the batch of handler h
RankIn(h, id) ==
  Cardinality({o \in Admissible(h) :
     FirstPos(handlers[h].batch, o) < FirstPos(handlers[h].batch, id)})

\* C9 (voice cap): a batch with M > V admissible ids (assets loaded) starts
\* exactly V voices, those of the first V ids in decode order, completes
\* without an error and keeps nothing of the other M - V ids.
C9_VoiceCap ==
  \A h \in DOMAIN handlers :
    Cardinality(Admissible(h)) > MAX_SIMULTANEOUS_VOICES =>
      /\ handlers[h].pc = "done"
      /\ ~handlers[h].threw
      /\ Len(handlers[h].voices) = MAX_SIMULTANEOUS_VOICES
      /\ Len(handlers[h].hits) = MAX_SIMULTANEOUS_VOICES
      /\ Len(handlers[h].tasks) = MAX_SIMULTANEOUS_VOICES
      /\ \A k \in DOMAIN handlers[h].voices :
           /\ handlers[h].voices[k].id \in Admissible(h)
           /\ RankIn(h, handlers[h].voices[k].id) = k - 1
           /\ handlers[h].hits[k] = handlers[h].voices[k].id

\* a batch with V + 2 admissible ids that started V voices
C9_Witness ==
  \E h \in DOMAIN handlers :
    /\ Cardinality(Admissible(h)) = MAX_SIMULTANEOUS_VOICES + 2
    /\ Len(handlers[h].voices) = MAX_SIMULTANEOUS_VOICES

\* ---- C2: at most one engine is starting or running at any time, whatever
\* the interleaving of startScanner calls.
LiveEngines == {e \in DOMAIN engines : engines[e].state \in {"starting", "running"}}

C2_OneSession == Cardinality(LiveEngines) <= 1

\* ---- C7: no batch is handed to handleDecodedArray by a startScanner call
\* whose capture session has been stopped.
C7_NoBatchAfterStop ==
  \A h \in DOMAIN handlers : handlers[h].session # "stopped"

\* ---- C10: a startScanner call whose start attempts have all failed
\* rejects, leaves no engine behind and leaves usingFacing as it found it.
C10_StartFailure ==
  \A c \in DOMAIN scans :
    (scans[c].pc = "done" /\ scans[c].outcome = "failed")
      => /\ scans[c].result = "rejected"
         /\ scans[c].held = 0
         /\ scans[c].facingOut = scans[c].facingIn

\* ---- C11: a startScanner call starts the engine at most twice; a second
\* start is made only after a first one with a device-id constraint has
\* failed, and asks for the generic facing-mode constraint with the facing
\* the call was given.
C11_RetryPolicy ==
  \A c \in DOMAIN scans :
    LET sc == scans[c] IN
    /\ Len(sc.tried) <= 2
    /\ Len(sc.tried) = sc.attempts
    /\ Len(sc.tried) >= 1 =>
         /\ sc.tried[1].kind = sc.constraints
         /\ sc.tried[1].facing = sc.facingPref
    /\ Len(sc.tried) = 2 =>
         /\ sc.tried[1].kind = "deviceId"
         /\ sc.tried[2] = [kind |-> "facingMode", facing |-> sc.facingPref]
    /\ (sc.pc = "done" /\ sc.outcome = "failed" /\ sc.constraints = "deviceId")
         => Len(sc.tried) = 2
    /\ sc.pc = "awaitFallback" => Len(sc.tried) = 2

\* a call that fell back to the facing-mode constraint and started with it,
\* and a call whose facing-mode start failed and was left at that
C11_Witness ==
  /\ \E c \in DOMAIN scans :
       /\ scans[c].pc = "done" /\ scans[c].outcome = "started"
       /\ Len(scans[c].tried) = 2
  /\ \E c \in DOMAIN scans :
       /\ scans[c].pc = "done" /\ scans[c].outcome = "failed"
       /\ scans[c].constraints = "facingMode" /\ Len(scans[c].tried) = 1

\* ---- C12: at most one flush timer is pending at any time, the timers of
\* the aggregators of earlier startScanner calls included.
PendingTimers == {c \in DOMAIN frames : frames[c].frameTimer # 0}

C12_OneFlushTimer == Cardinality(PendingTimers) <= 1

\* the last batch, in call order, that admitted id
LastAdmitting(id) ==
  CHOOSE h \in DOMAIN handlers :
    /\ id \in Range(handlers[h].admitted)
    /\ \A k \in DOMAIN handlers : id \in Range(handlers[k].admitted) => k <= h

\* ---- C13: batches are admitted in the order their windows close, each
\* batch checking the debounce table as the batches before it left it; the
\* voices of a batch are those of its admitted ids in the order of their
\* first occurrence, the voice at admission index i starting at i * STAGGER.
C13_Ordering ==
  /\ \A h1 \in DOMAIN handlers : \A h2 \in DOMAIN handlers :
       h1 < h2 => /\ handlers[h1].closed <= handlers[h2].closed
                  /\ handlers[h1].now <= handlers[h2].now
  /\ \A h \in DOMAIN handlers : handlers[h].closed <= handlers[h].now
  /\ \A id \in DOMAIN lastPlayed :
       /\ \E h \in DOMAIN handlers : id \in Range(handlers[h].admitted)
       /\ lastPlayed[id] = handlers[LastAdmitting(id)].now
  /\ \A h \in DOMAIN handlers :
       LET hr == handlers[h] IN
       /\ \A i \in DOMAIN hr.admitted : \A j \in DOMAIN hr.admitted :
            i < j => FirstPos(hr.batch, hr.admitted[i])
                       < FirstPos(hr.batch, hr.admitted[j])
       /\ \A i \in DOMAIN hr.toPlay : hr.toPlay[i].id = hr.admitted[i]
       /\ \A k \in DOMAIN hr.voices :
            LET v == hr.voices[k] IN
            /\ v.id = hr.admitted[v.idx + 1]
            /\ v.out.when.num * 1000 = v.idx * STAGGER_MS * v.out.when.den
            /\ \A l \in DOMAIN hr.voices : k < l => v.idx < hr.voices[l].idx

\* two batches in a row, the later one playing two voices in decode order
C13_Witness ==
  \E h1 \in DOMAIN handlers : \E h2 \in DOMAIN handlers :
    /\ h1 < h2
    /\ handlers[h1].admitted # <<>>
    /\ handlers[h1].closed < handlers[h2].closed
    /\ Len(handlers[h2].voices) = 2
    /\ handlers[h2].voices[2].out.when.num = STAGGER_MS

\* the load of task i of handler h decoded the buffer that the cache holds
\* for url
DecodedBy(h, i, url) ==
  /\ i \in DOMAIN handlers[h].tasks
  /\ handlers[h].tasks[i] = "loaded"
  /\ handlers[h].toPlay[i].sound = url
  /\ audioBuffers[url] = <<h, i>>

\* ---- C14: a load that failed leaves no entry in audioBuffers and is not
\* repeated by loadAudio; a later request for the same url that finds no
\* entry loads again, and once that load has decoded, the buffer is cached
\* and the voice is played.
C14_NoPoisonedEntry ==
  /\ \A url \in DOMAIN audioBuffers :
       \/ audioBuffers[url] = Preloaded
       \/ \E h \in DOMAIN handlers : \E i \in 1..MAX_SIMULTANEOUS_VOICES :
            DecodedBy(h, i, url)
  /\ \A h \in DOMAIN handlers : \A i \in DOMAIN handlers[h].tasks :
       LET url == handlers[h].toPlay[i].sound IN
       /\ handlers[h].tasks[i] = "cached" => HasBuf(audioBuffers, url)
       /\ handlers[h].tasks[i] = "loaded" =>
            /\ HasBuf(audioBuffers, url)
            /\ handlers[h].pc = "done" => Cardinality(VoicesAt(h, i - 1)) = 1
       /\ (handlers[h].tasks[i] = "failed" /\ ~HasBuf(audioBuffers, url))
            => VoicesAt(h, i - 1) = {}
  /\ \A h \in DOMAIN handlers : \A k \in DOMAIN handlers[h].voices :
       handlers[h].voices[k].out.buf # Rejected

\* the load of a url failed for one batch; a later batch loaded the same url
\* again, cached it and played it
C14_Witness ==
  \E h1 \in DOMAIN handlers : \E h2 \in DOMAIN handlers :
    \E i \in DOMAIN handlers[h1].tasks : \E j \in DOMAIN handlers[h2].tasks :
      /\ h1 < h2
      /\ handlers[h1].pc = "done" /\ handlers[h1].tasks[i] = "failed"
      /\ handlers[h1].voices = <<>>
      /\ handlers[h2].toPlay[j].sound = handlers[h1].toPlay[i].sound
      /\ DecodedBy(h2, j, handlers[h2].toPlay[j].sound)
      /\ VoicesAt(h2, j - 1) # {}

\* the cameras listed, and those among them with a rear-facing label
VideoInputs == SelectSeq(devices, LAMBDA d : d.kind = "videoinput")
RearLabelled == SelectSeq(VideoInputs, LAMBDA d : MatchesRear(d.label))

\* startScanner call c, asked for the rear camera, has chosen its constraint
RearChosen(c) ==
  /\ scans[c].facingPref = "environment"
  /\ scans[c].enumerated # "pending"

\* the first start of call c was made with the generic rear constraint
GenericRear(c) ==
  /\ scans[c].constraints = "facingMode"
  /\ scans[c].tried # <<>>
  /\ scans[c].tried[1] = [kind |-> "facingMode", facing |-> "environment"]

\* ---- C15 as stated: asked for the rear camera, whenever no listed camera
\* has a rear-facing label (none listed, enumeration failed, or labels that
\* do not match) the engine is started with the generic rear facing-mode
\* constraint.
C15_GenericWhenNoRearLabel ==
  \A c \in DOMAIN scans :
    (RearChosen(c) /\ (scans[c].enumerated = "throws" \/ RearLabelled = <<>>))
      => GenericRear(c)

\* ---- C15 as amended: asked for the rear camera, the engine is started
\* with the generic rear facing-mode constraint when enumeration fails or
\* lists no camera; when cameras are listed and none has a rear-facing
\* label, with the device id of the last camera listed, or with the generic
\* constraint if that id is empty.
C15_RearSelection ==
  \A c \in DOMAIN scans :
    RearChosen(c) =>
      /\ scans[c].tried # <<>>
      /\ (scans[c].enumerated = "throws" \/ VideoInputs = <<>>) => GenericRear(c)
      /\ ( /\ scans[c].enumerated = "listed"
           /\ VideoInputs # <<>>
           /\ RearLabelled = <<>> )
           => LET last == VideoInputs[Len(VideoInputs)].deviceId IN
              /\ scans[c].id = last
              /\ scans[c].tried[1] =
                   [kind |-> IF last = "" THEN "facingMode" ELSE "deviceId",
                    facing |-> "environment"]

\* the rear camera was asked for with no camera listed, and the engine is
\* running on the generic constraint
C15_Witness ==
  \E c \in DOMAIN scans :
    /\ RearChosen(c)
    /\ scans[c].enumerated = "listed" /\ VideoInputs = <<>>
    /\ scans[c].pc = "done" /\ scans[c].outcome = "started"
    /\ GenericRear(c)

\* decode events reported to onSuccess so far and not dropped by it
EventsTaken ==
  \/ \E c \in DOMAIN frames : frames[c].frameBuffer # <<>>
  \/ handlers # <<>>

\* ---- C16: when data/figures.json cannot be fetched, is answered with a
\* non-success status, cannot be parsed or holds no figures list, boot
\* stops: startScanner is never called and no decode event is processed.
C16_MappingFailureFatal ==
  mapping \in {"rejects", "notOk", "badJson", "noList"}
    => /\ scans = <<>>
       /\ engines = <<>>
       /\ ~EventsTaken

\* the startScanner calls made by the toggle that have not returned
TogglesRunning ==
  {c \in DOMAIN scans : scans[c].caller = "toggle" /\ scans[c].pc # "done"}

\* ---- C17: the toggle button is disabled exactly while a startScanner call
\* made by it has not returned, whether that call starts the engine or not;
\* no two such calls overlap; each asks for the facing opposite to
\* usingFacing as it was at the click.
C17_ToggleGuard ==
  /\ toggleBtn.disabled <=> TogglesRunning # {}
  /\ Cardinality(TogglesRunning) <= 1
  /\ \A c \in DOMAIN scans :
       scans[c].caller = "toggle" =>
         /\ scans[c].facingPref = Opposite(scans[c].facingIn)
         /\ \A k \in DOMAIN scans :
              (k < c /\ scans[k].caller = "toggle") => scans[k].pc = "done"

\* a toggle whose start failed, then a second toggle that started the engine,
\* the button enabled again
C17_Witness ==
  \E c1 \in DOMAIN scans : \E c2 \in DOMAIN scans :
    /\ c1 < c2
    /\ scans[c1].caller = "toggle" /\ scans[c2].caller = "toggle"
    /\ scans[c1].pc = "done" /\ scans[c1].outcome = "failed"
    /\ scans[c2].pc = "done" /\ scans[c2].outcome = "started"
    /\ ~toggleBtn.disabled

\* ---- C18: every key of lastPlayed is the id of a FigureRecord of
\* figuresMap.
C18_DebounceKeysMapped == DOMAIN lastPlayed \subseteq DOMAIN figuresMap

\* the batches that the aggregator of call c has handed to
\* handleDecodedArray among the first n calls of it, one after the other
RECURSIVE HandedUpTo(_, _)
HandedUpTo(c, n) ==
  IF n = 0 THEN <<>>
  ELSE IF handlers[n].src = c THEN HandedUpTo(c, n - 1) \o handlers[n].batch
       ELSE HandedUpTo(c, n - 1)

Handed(c) == HandedUpTo(c, Len(handlers))

\* ---- C19: every decode event with non-blank text reported to onSuccess
\* is in exactly one batch handed to handleDecodedArray or still in the
\* frame buffer, in the order of arrival, events after a flush going to the
\* next batch; a flush timer is pending exactly when the frame buffer holds
\* something, so that whatever is buffered is due to be handed on within
\* the window; no batch is empty.
C19_FrameAggregation ==
  /\ \A c \in DOMAIN frames :
       /\ Handed(c) \o frames[c].frameBuffer = frames[c].reported
       /\ frames[c].frameTimer # 0 <=> frames[c].frameBuffer # <<>>
       /\ frames[c].frameTimer <= clock + FRAME_WINDOW_MS
  /\ \A h \in DOMAIN handlers : handlers[h].batch # <<>>

\* two batches: the first of two events, the second of what came after the
\* first flush
C19_Witness ==
  /\ Len(handlers) = 2
  /\ Len(handlers[1].batch) = 2
  /\ handlers[2].batch # <<>>
  /\ frames[1].reported = handlers[1].batch \o handlers[2].batch

\* id was admitted by handler h and has produced no playback there: the
\* voice cap dropped its record, or its load has not decoded
Unplayed(h, id) ==
  /\ id \in Range(handlers[h].admitted)
  /\ \A k \in DOMAIN handlers[h].voices : handlers[h].voices[k].id # id

CapDropped(h, id) ==
  /\ id \in Range(handlers[h].admitted)
  /\ \A i \in DOMAIN handlers[h].toPlay : handlers[h].toPlay[i].id # id

LoadFailed(h, id) ==
  \E i \in DOMAIN handlers[h].toPlay :
    handlers[h].toPlay[i].id = id /\ handlers[h].tasks[i] = "failed"

\* ---- C20: the timestamp of an id is written when the id passes the
\* debounce filter: from then on lastPlayed holds it, and an id dropped by
\* the voice cap or left without playback by its load is admitted by no
\* batch flushed less than D after that batch.
C20_StampAtAdmission ==
  \A h1 \in DOMAIN handlers : \A id \in Range(handlers[h1].admitted) :
    /\ id \in DOMAIN lastPlayed
    /\ lastPlayed[id] >= handlers[h1].now
    /\ Unplayed(h1, id) =>
         \A h2 \in DOMAIN handlers :
           (h1 < h2 /\ handlers[h2].now - handlers[h1].now < handlers[h2].D)
             => id \notin Range(handlers[h2].admitted)

\* a batch of more ids than voices whose first load failed, and a batch
\* flushed less than D later that shows a capped id and the failed id and
\* admits neither
C20_Witness ==
  \E h1 \in DOMAIN handlers : \E h2 \in DOMAIN handlers :
    \E capped \in Range(handlers[h2].batch) :
      \E failed \in Range(handlers[h2].batch) :
        /\ h1 < h2
        /\ handlers[h2].now - handlers[h1].now < handlers[h2].D
        /\ CapDropped(h1, capped)
        /\ LoadFailed(h1, failed) /\ Unplayed(h1, failed)
        /\ handlers[h1].pc = "done"
        /\ handlers[h2].admitted = <<>>

====
